---- MODULE Spec2Model ----
(***************************************************************************)
(* Model of the digital-twin backend: the calendar event normalizer        *)
(* (integrations/google_calendar.py), the availability classifier          *)
(* (engines/mood_engine.py) and the RAG orchestrator                       *)
(* (engines/context_engine.py), driven by the /api/status, /api/chat and   *)
(* /auth/callback handlers.                                                *)
(*                                                                         *)
(* Time is counted in whole hours.  An instant is a number of hours in     *)
(* UTC; a wall-clock reading is instant + UTC offset.                      *)
(***************************************************************************)
EXTENDS Integers, Sequences, FiniteSets, TLC

VARIABLES
    clock,        \* the current instant (UTC hours)
    tz,           \* UTC offset of the server process's local timezone
    token,        \* token.json: "absent", "partial" (opened "w", not yet dumped), "valid"
    cb,           \* position of the /auth/callback handler: "idle" or "open"
    req,          \* the request in flight: "none", "status" or "chat"
    pc,           \* position of the request in flight
    query,        \* chat: the query of the request
    history,      \* chat: the history of the request
    results,      \* chat: what collection.query returned
    context_docs, \* chat: the list retrieve() built
    items,        \* get_todays_events: the provider's raw event records
    events,       \* get_todays_events: formatted_events
    current_hour, \* _analyze_calendar: datetime.now(USER_TIMEZONE).hour
    status,       \* what MoodEngine.get_status returned
    authed,       \* what is_authenticated() returned to get_status
    calls,        \* calls issued by the request: index, status lookup, events fetch,
                  \* completion, and the completion calls that returned a text
    messages,     \* chat: the messages sent to the completion call
    outcome,      \* what the handler gave its caller
    zone,         \* what the time module reports of the server's timezone, and
                  \* whether daylight saving time is in effect now
    time_range,   \* get_todays_events: timeMin and timeMax of the provider call
    collection,   \* the documents of the "profile" collection
    ingest        \* ingest_slides: the locals of the most recent run

vars == <<clock, tz, token, cb, req, pc, query, history, results, context_docs, items,
          events, current_hour, status, authed, calls, messages, outcome,
          zone, time_range, collection, ingest>>

----------------------------------------------------------------------------
(* Bounds *)

MaxEvents == 5      \* longest event list the provider returns
MaxNormTime == 3    \* instants and wall-clock readings of the normalizer's inputs
MaxHistory == 2     \* longest chat history
MaxChatEvents == 1  \* longest event list the provider returns to a chat request
MaxNormLen == 2     \* longest event list of the normalizer's inputs
MaxDecks == 3       \* most presentations in the Drive folder

(* Program constants *)

NResults == 3       \* ask: retrieve(query, n_results=3)
UserUtcOffset == -8 \* USER_TIMEZONE = America/Los_Angeles (standard time)

Hours == 0 .. 23

\* the instants chat requests start at: 10:00, 13:00 and 17:00 in Los Angeles
ChatClocks == {18, 21, 1}

None == [none |-> TRUE]

----------------------------------------------------------------------------
(* Raw start/end values of a provider event record, after                  *)
(*   event["start"].get("dateTime", event["start"].get("date")).           *)
(*   k = "dt"    "....T09:00:00-08:00"  (wall, off)                        *)
(*   k = "z"     "....T09:00:00Z"       (wall)                             *)
(*   k = "naive" "....T09:00:00"        (wall, no offset)                  *)
(*   k = "date"  "2024-01-01"           (all-day; wall = its midnight)     *)
(*   k = "badT"  a string holding a "T" that is no ISO datetime            *)
(*   k = "bad"   a string without "T" that is no ISO date                  *)
(*   k = "none"  None: neither dateTime nor date is present                *)

RawValue(k, wall, off) == [k |-> k, wall |-> wall, off |-> off]

\* "T" in start
HasT(v) == v.k \in {"dt", "z", "naive", "badT"}

\* datetime.fromisoformat(v.replace("Z", "+00:00"))
FromIso(v) ==
    CASE v.k = "dt"    -> [ok |-> TRUE,  aware |-> TRUE,  wall |-> v.wall, off |-> v.off]
      [] v.k = "z"     -> [ok |-> TRUE,  aware |-> TRUE,  wall |-> v.wall, off |-> 0]
      [] v.k = "naive" -> [ok |-> TRUE,  aware |-> FALSE, wall |-> v.wall, off |-> 0]
      [] v.k = "date"  -> [ok |-> TRUE,  aware |-> FALSE, wall |-> v.wall, off |-> 0]
      [] OTHER         -> [ok |-> FALSE, aware |-> FALSE, wall |-> 0,      off |-> 0]

\* the server's local wall clock labelled with the event's offset
NowInLocal(dt, now, local) ==
    IF dt.aware
    THEN [ok |-> TRUE, aware |-> TRUE,  wall |-> now + local, off |-> dt.off]
    ELSE [ok |-> TRUE, aware |-> FALSE, wall |-> now + local,  off |-> 0]

\* datetime.now(tz=start_dt.tzinfo): aware in the event's offset, or naive
\* local time of the server process when tzinfo is None
NowIn(dt, now, local) ==
    IF dt.aware
    THEN [ok |-> TRUE, aware |-> TRUE,  wall |-> now + dt.off, off |-> dt.off]
    ELSE [ok |-> TRUE, aware |-> FALSE, wall |-> now + local,  off |-> 0]

\* the instant an aware datetime denotes; a naive one compares by its wall clock
Instant(dt) == IF dt.aware THEN dt.wall - dt.off ELSE dt.wall

\* a <= b on datetimes of the same awareness
DtLE(a, b) == Instant(a) <= Instant(b)

\* a > b on datetimes of the same awareness
DtGT(a, b) == Instant(a) > Instant(b)

\* strftime("%H:%M")
StrfHM(dt) == [fmt |-> "hm", hh |-> dt.wall % 24, raw |-> None]

AllDayStr == [fmt |-> "allday", hh |-> 0, raw |-> None]

RawStr(v) == [fmt |-> "raw", hh |-> 0, raw |-> v]

\* the try block raises: "T" in None, fromisoformat of a non-ISO string (or
\* None.replace), or an aware/naive comparison
ParseRaises(start, end) ==
    \/ start.k = "none"
    \/ /\ HasT(start)
       /\ \/ ~FromIso(start).ok
          \/ ~FromIso(end).ok
          \/ FromIso(start).aware # FromIso(end).aware

\* is_past as "current_time >= end_dt": an event ending this instant is past already
IsPastInclusive(current_time, end_dt) == DtLE(end_dt, current_time)

\* is_past = current_time > end_dt
IsPast(current_time, end_dt) == DtGT(current_time, end_dt)

\* event.get("summary", "No title")
SummaryOf(event) == IF "summary" \in DOMAIN event THEN event.summary ELSE "No title"

\* the body of the loop over the provider's events
FormatEvent(event, now, local) ==
    LET start == event.start
        end == event.end
        start_dt == FromIso(start)
        end_dt == FromIso(end)
        current_time == NowIn(start_dt, now, local)
    IN  IF ParseRaises(start, end)
        THEN [summary |-> SummaryOf(event), start |-> RawStr(start), end |-> RawStr(end),
              is_now |-> FALSE, is_past |-> FALSE]
        ELSE IF HasT(start)
        THEN [summary |-> SummaryOf(event), start |-> StrfHM(start_dt), end |-> StrfHM(end_dt),
              is_now |-> DtLE(start_dt, current_time) /\ DtLE(current_time, end_dt),
              is_past |-> IsPast(current_time, end_dt)]
        ELSE [summary |-> SummaryOf(event), start |-> AllDayStr, end |-> AllDayStr,
              is_now |-> FALSE, is_past |-> FALSE]

\* formatted_events: one formatted event per provider record, in provider order
FormatEvents(raw, now, local) == [i \in 1 .. Len(raw) |-> FormatEvent(raw[i], now, local)]

\* event["start"] and event["end"]: a record without one of the keys raises KeyError
HasStartEnd(event) == "start" \in DOMAIN event /\ "end" \in DOMAIN event

\* the timezone values of the time module: timezone and altzone are seconds
\* west of UTC without and with daylight saving time, daylight is nonzero when
\* the zone defines daylight saving time at all; dst tells whether it is in effect
Zone(timezone, altzone, daylight, dst) ==
    [timezone |-> timezone, altzone |-> altzone, daylight |-> daylight, dst |-> dst]

\* the UTC offset in effect in the zone, in minutes east of UTC
LocalOffsetMinutes(z) == IF z.dst THEN (0 - z.altzone) \div 60 ELSE (0 - z.timezone) \div 60

\* offset = time.timezone if time.daylight == 0 else time.altzone
\* offset_hours = -offset // 3600
OffsetHours(z) ==
    LET offset == IF z.daylight = 0 THEN z.timezone ELSE z.altzone
    IN  (0 - offset) \div 3600

\* offset_str = f"{offset_hours:+03d}:00", as minutes east of UTC
OffsetStr(z) == OffsetHours(z) * 60 + 0

\* time_min and time_max: local midnight of today and of tomorrow, each
\* followed by offset_str
TimeRange(z) ==
    [time_min |-> [day |-> 0, hh |-> 0, off |-> OffsetStr(z)],
     time_max |-> [day |-> 1, hh |-> 0, off |-> OffsetStr(z)]]

NoRange == [time_min |-> None, time_max |-> None]

----------------------------------------------------------------------------
(* engines/mood_engine.py *)

Summary(text, count, clause) == [text |-> text, count |-> count, clause |-> clause]

\* get_status, not authenticated: the dict returned at once
SentinelStatus ==
    [availability |-> "unknown",
     energy_estimate |-> "unknown",
     best_contact_method |-> "async",
     suggested_wait_time |-> "unknown",
     context_summary |-> Summary("Calendar not connected", 0, "none"),
     meeting_count |-> 0,
     in_meeting |-> FALSE]

\* any(event.get("is_now", False) for event in events)
InMeeting(evs) == \E i \in 1 .. Len(evs) : evs[i].is_now

RECURSIVE CountNotPast(_)
\* sum(1 for event in events if not event.get("is_past", False))
CountNotPast(evs) ==
    IF evs = <<>> THEN 0
    ELSE (IF Head(evs).is_past THEN 0 ELSE 1) + CountNotPast(Tail(evs))

\* the tiers checked by meeting count before the in-meeting test
TierCountFirst(in_meeting, meeting_count) ==
    IF meeting_count = 0
    THEN [availability |-> "open", best_contact |-> "deep_discussion", wait_time |-> "now",
          summary |-> Summary("Calendar is clear today", 0, "none")]
    ELSE IF meeting_count <= 2
    THEN [availability |-> "open", best_contact |-> "quick_sync", wait_time |-> "now",
          summary |-> Summary("Light day", meeting_count, "none")]
    ELSE IF meeting_count <= 4
    THEN [availability |-> "focused", best_contact |-> "quick_sync", wait_time |-> "30min",
          summary |-> Summary("Moderate day", meeting_count, "none")]
    ELSE IF in_meeting
    THEN [availability |-> "busy", best_contact |-> "async", wait_time |-> "30min",
          summary |-> Summary("Currently in a meeting", 0, "none")]
    ELSE [availability |-> "busy", best_contact |-> "async", wait_time |-> "end_of_day",
          summary |-> Summary("Heavy day", meeting_count, "none")]

\* the light-day tier ending at one meeting instead of two
TierLightAtOne(in_meeting, meeting_count) ==
    IF in_meeting
    THEN [availability |-> "busy", best_contact |-> "async", wait_time |-> "30min",
          summary |-> Summary("Currently in a meeting", 0, "none")]
    ELSE IF meeting_count = 0
    THEN [availability |-> "open", best_contact |-> "deep_discussion", wait_time |-> "now",
          summary |-> Summary("Calendar is clear today", 0, "none")]
    ELSE IF meeting_count <= 1
    THEN [availability |-> "open", best_contact |-> "quick_sync", wait_time |-> "now",
          summary |-> Summary("Light day", meeting_count, "none")]
    ELSE IF meeting_count <= 4
    THEN [availability |-> "focused", best_contact |-> "quick_sync", wait_time |-> "30min",
          summary |-> Summary("Moderate day", meeting_count, "none")]
    ELSE [availability |-> "busy", best_contact |-> "async", wait_time |-> "end_of_day",
          summary |-> Summary("Heavy day", meeting_count, "none")]

\* the moderate-day tier ending at three meetings instead of four
TierHeavyAtFour(in_meeting, meeting_count) ==
    IF in_meeting
    THEN [availability |-> "busy", best_contact |-> "async", wait_time |-> "30min",
          summary |-> Summary("Currently in a meeting", 0, "none")]
    ELSE IF meeting_count = 0
    THEN [availability |-> "open", best_contact |-> "deep_discussion", wait_time |-> "now",
          summary |-> Summary("Calendar is clear today", 0, "none")]
    ELSE IF meeting_count <= 2
    THEN [availability |-> "open", best_contact |-> "quick_sync", wait_time |-> "now",
          summary |-> Summary("Light day", meeting_count, "none")]
    ELSE IF meeting_count <= 3
    THEN [availability |-> "focused", best_contact |-> "quick_sync", wait_time |-> "30min",
          summary |-> Summary("Moderate day", meeting_count, "none")]
    ELSE [availability |-> "busy", best_contact |-> "async", wait_time |-> "end_of_day",
          summary |-> Summary("Heavy day", meeting_count, "none")]

\* "Availability logic": the if/elif chain on in_meeting and meeting_count
Tier(in_meeting, meeting_count) ==
    IF in_meeting
    THEN [availability |-> "busy", best_contact |-> "async", wait_time |-> "30min",
          summary |-> Summary("Currently in a meeting", 0, "none")]
    ELSE IF meeting_count = 0
    THEN [availability |-> "open", best_contact |-> "deep_discussion", wait_time |-> "now",
          summary |-> Summary("Calendar is clear today", 0, "none")]
    ELSE IF meeting_count <= 2
    THEN [availability |-> "open", best_contact |-> "quick_sync", wait_time |-> "now",
          summary |-> Summary("Light day", meeting_count, "none")]
    ELSE IF meeting_count <= 4
    THEN [availability |-> "focused", best_contact |-> "quick_sync", wait_time |-> "30min",
          summary |-> Summary("Moderate day", meeting_count, "none")]
    ELSE [availability |-> "busy", best_contact |-> "async", wait_time |-> "end_of_day",
          summary |-> Summary("Heavy day", meeting_count, "none")]

\* the end-of-workday branch taken from hour 17 instead of hour 16
OverlayFrom17(availability, summary, hour) ==
    IF 9 <= hour /\ hour < 12
    THEN [availability |-> availability, energy |-> "high",
          summary |-> [summary EXCEPT !.clause = "Morning energy is typically high"]]
    ELSE IF 12 <= hour /\ hour < 14
    THEN [availability |-> availability, energy |-> "medium",
          summary |-> [summary EXCEPT !.clause = "Post-lunch energy dip"]]
    ELSE IF 14 <= hour /\ hour < 17
    THEN [availability |-> availability, energy |-> "medium",
          summary |-> [summary EXCEPT !.clause = "Afternoon work mode"]]
    ELSE IF hour >= 17
    THEN [availability |-> "winding_down", energy |-> "low",
          summary |-> Summary("End of workday", 0, "none")]
    ELSE [availability |-> availability, energy |-> "medium", summary |-> summary]

\* the hours before 9 taken as low energy
OverlayEarlyLow(availability, summary, hour) ==
    IF 9 <= hour /\ hour < 12
    THEN [availability |-> availability, energy |-> "high",
          summary |-> [summary EXCEPT !.clause = "Morning energy is typically high"]]
    ELSE IF 12 <= hour /\ hour < 14
    THEN [availability |-> availability, energy |-> "medium",
          summary |-> [summary EXCEPT !.clause = "Post-lunch energy dip"]]
    ELSE IF 14 <= hour /\ hour < 16
    THEN [availability |-> availability, energy |-> "medium",
          summary |-> [summary EXCEPT !.clause = "Afternoon work mode"]]
    ELSE IF hour >= 16
    THEN [availability |-> "winding_down", energy |-> "low",
          summary |-> Summary("End of workday", 0, "none")]
    ELSE [availability |-> availability, energy |-> "low", summary |-> summary]

\* "Determine energy based on time of day": the second if/elif chain
Overlay(availability, summary, hour) ==
    IF 9 <= hour /\ hour < 12
    THEN [availability |-> availability, energy |-> "high",
          summary |-> [summary EXCEPT !.clause = "Morning energy is typically high"]]
    ELSE IF 12 <= hour /\ hour < 14
    THEN [availability |-> availability, energy |-> "medium",
          summary |-> [summary EXCEPT !.clause = "Post-lunch energy dip"]]
    ELSE IF 14 <= hour /\ hour < 16
    THEN [availability |-> availability, energy |-> "medium",
          summary |-> [summary EXCEPT !.clause = "Afternoon work mode"]]
    ELSE IF hour >= 16
    THEN [availability |-> "winding_down", energy |-> "low",
          summary |-> Summary("End of workday", 0, "none")]
    ELSE [availability |-> availability, energy |-> "medium", summary |-> summary]

\* the end-of-workday branch also setting the wait time, to the "tomorrow" of
\* the docstring
AnalyzeCalendarTomorrow(evs, hour) ==
    LET meeting_count == Len(evs)
        in_meeting == InMeeting(evs)
        meetings_remaining == CountNotPast(evs)
        t == Tier(in_meeting, meeting_count)
        o == Overlay(t.availability, t.summary, hour)
    IN  [availability |-> o.availability,
         energy_estimate |-> o.energy,
         best_contact_method |-> t.best_contact,
         suggested_wait_time |-> IF hour >= 16 THEN "tomorrow" ELSE t.wait_time,
         context_summary |-> o.summary,
         meeting_count |-> meeting_count,
         meetings_remaining |-> meetings_remaining,
         in_meeting |-> in_meeting,
         events |-> evs]

\* MoodEngine._analyze_calendar
AnalyzeCalendar(evs, hour) ==
    LET meeting_count == Len(evs)
        in_meeting == InMeeting(evs)
        meetings_remaining == CountNotPast(evs)
        t == Tier(in_meeting, meeting_count)
        o == Overlay(t.availability, t.summary, hour)
    IN  [availability |-> o.availability,
         energy_estimate |-> o.energy,
         best_contact_method |-> t.best_contact,
         suggested_wait_time |-> t.wait_time,
         context_summary |-> o.summary,
         meeting_count |-> meeting_count,
         meetings_remaining |-> meetings_remaining,
         in_meeting |-> in_meeting,
         events |-> evs]

\* datetime.now(USER_TIMEZONE).hour
UserHour(now) == (now + UserUtcOffset + 24) % 24

----------------------------------------------------------------------------
(* engines/context_engine.py *)

Min(a, b) == IF a <= b THEN a ELSE b

\* meta.get("source", "unknown")
SourceOf(meta) == IF "source" \in DOMAIN meta THEN meta.source ELSE "unknown"

\* retrieve dropping a document whose source was already listed
RetrieveDistinct(res) ==
    LET n == Min(Len(res.documents), Min(Len(res.metadatas), Len(res.distances)))
        all == [i \in 1 .. n |->
                  [content |-> res.documents[i],
                   source |-> SourceOf(res.metadatas[i]),
                   score |-> res.distances[i]]]
        keep == {i \in 1 .. n : \A j \in 1 .. i - 1 : all[j].source # all[i].source}
        F[i \in 0 .. n] ==
            IF i = 0 THEN <<>>
            ELSE IF i \in keep THEN Append(F[i - 1], all[i]) ELSE F[i - 1]
    IN  F[n]

\* ContextEngine.retrieve: zip(documents, metadatas, distances) into dicts
Retrieve(res) ==
    LET n == Min(Len(res.documents), Min(Len(res.metadatas), Len(res.distances)))
    IN  [i \in 1 .. n |->
           [content |-> res.documents[i],
            source |-> SourceOf(res.metadatas[i]),
            score |-> res.distances[i]]]

\* mood_status.get(key, default)
StatusGet(st, key, default) == IF key \in DOMAIN st THEN st[key] ELSE default

\* calendar_context: the live-status block
CalendarContext(st) ==
    [in_meeting |-> IF StatusGet(st, "in_meeting", FALSE) THEN "YES" ELSE "NO",
     availability |-> StatusGet(st, "availability", "unknown"),
     meetings_remaining |-> StatusGet(st, "meetings_remaining", 0),
     meeting_count |-> StatusGet(st, "meeting_count", 0),
     energy |-> StatusGet(st, "energy_estimate", "unknown"),
     wait |-> StatusGet(st, "suggested_wait_time", "unknown"),
     summary |-> StatusGet(st, "context_summary", Summary("", 0, "none"))]

\* context_parts: "[Source: <source>]\n<content>" per document
ContextParts(docs) ==
    [i \in 1 .. Len(docs) |-> [source |-> docs[i].source, content |-> docs[i].content]]

\* the history roles mapped by "user" or not: every turn that is not the
\* asker's becomes an assistant turn
BuildMessagesUserOrNot(q, docs, hist, st) ==
    <<[role |-> "system", content |-> [kind |-> "system_prompt"]]>>
    \o [i \in 1 .. Len(hist) |->
          [role |-> IF hist[i].role = "user" THEN "user" ELSE "assistant",
           content |-> [kind |-> "text", text |-> hist[i].content]]]
    \o <<[role |-> "user",
          content |-> [kind |-> "user_prompt",
                       calendar |-> CalendarContext(st),
                       parts |-> ContextParts(docs),
                       query |-> q]]>>

\* the messages array: system prompt, history turns, final user prompt
BuildMessages(q, docs, hist, st) ==
    <<[role |-> "system", content |-> [kind |-> "system_prompt"]]>>
    \o [i \in 1 .. Len(hist) |->
          [role |-> IF hist[i].role = "twin" THEN "assistant" ELSE "user",
           content |-> [kind |-> "text", text |-> hist[i].content]]]
    \o <<[role |-> "user",
          content |-> [kind |-> "user_prompt",
                       calendar |-> CalendarContext(st),
                       parts |-> ContextParts(docs),
                       query |-> q]]>>

\* [doc["source"] for doc in context_docs]
Sources(docs) == [i \in 1 .. Len(docs) |-> docs[i].source]

----------------------------------------------------------------------------
(* Inputs *)

\* provider records of one day, in the provider's order (orderBy="startTime"):
\* an all-day event, 00:00Z-02:00Z (16:00-18:00 in Los Angeles),
\* 09:00-11:00 at -08:00, and a record whose dateTime is no ISO string
EventPool ==
    <<[summary |-> "Offsite", start |-> RawValue("date", 0, 0), end |-> RawValue("date", 24, 0)],
      [summary |-> "Review", start |-> RawValue("z", 0, 0), end |-> RawValue("z", 2, 0)],
      [summary |-> "Standup", start |-> RawValue("dt", 9, -8), end |-> RawValue("dt", 11, -8)],
      [start |-> RawValue("badT", 0, 0), end |-> RawValue("badT", 0, 0)]>>

\* the event lists of at most n records drawn from pool, kept in pool order
Calendars(pool, n) ==
    LET idx == UNION {[1 .. m -> 1 .. Len(pool)] : m \in 0 .. n}
        sorted == {s \in idx : \A i \in 1 .. Len(s) - 1 : s[i] <= s[i + 1]}
    IN  {[i \in 1 .. Len(s) |-> pool[s[i]]] : s \in sorted}

StatusCalendars == Calendars(EventPool, MaxEvents)

ChatCalendars == Calendars(EventPool, MaxChatEvents)

\* start/end values of the normalizer's inputs
NormOffsets == {-1, 0, 1}

NormValues ==
    {RawValue("dt", w, o) : w \in 0 .. MaxNormTime, o \in NormOffsets}
    \cup {RawValue(k, w, 0) : k \in {"z", "naive"}, w \in 0 .. MaxNormTime}
    \cup {RawValue(k, 0, 0) : k \in {"date", "badT", "bad", "none"}}

\* records for the lists of several events: a timed one, an all-day one, one
\* whose date is no ISO date, one whose dateTime is no ISO datetime, one with
\* neither date nor dateTime, and one without a "start" key
NormListPool ==
    {[summary |-> "Sync", start |-> RawValue("z", 1, 0), end |-> RawValue("z", 2, 0)],
     [summary |-> "Offsite", start |-> RawValue("date", 0, 0), end |-> RawValue("date", 24, 0)],
     [summary |-> "Soon", start |-> RawValue("bad", 0, 0), end |-> RawValue("bad", 0, 0)],
     [summary |-> "TBD", start |-> RawValue("badT", 0, 0), end |-> RawValue("z", 2, 0)],
     [summary |-> "Empty", start |-> RawValue("none", 0, 0), end |-> RawValue("none", 0, 0)],
     [summary |-> "Cancelled", end |-> RawValue("z", 2, 0)]}

NormLists == UNION {[1 .. m -> NormListPool] : m \in 2 .. MaxNormLen}

NormCalendars ==
    {<<[summary |-> "Sync", start |-> s, end |-> e]>> : s, e \in NormValues}
    \cup NormLists

\* server timezones: UTC, Los Angeles in winter and in summer, Kolkata
\* (+05:30), St. John's (-03:30, -02:30 in summer) in winter and in summer
UtcZone == Zone(0, 0, 0, FALSE)

LosAngelesWinter == Zone(28800, 25200, 1, FALSE)

ServerZones ==
    {UtcZone,
     LosAngelesWinter,
     Zone(28800, 25200, 1, TRUE),
     Zone(-19800, -19800, 0, FALSE),
     Zone(12600, 9000, 1, FALSE),
     Zone(12600, 9000, 1, TRUE)}

\* a zone of a fixed whole-hour offset
FixedZone(hours) == Zone((0 - hours) * 3600, (0 - hours) * 3600, 0, FALSE)

\* chunks of the "profile" collection: two of one file, one of another, and
\* one stored without a source (add_documents' default metadata {})
Chunks ==
    {[content |-> "resume 1", meta |-> [source |-> "resume.md"]],
     [content |-> "resume 2", meta |-> [source |-> "resume.md"]],
     [content |-> "bio", meta |-> [source |-> "bio.md"]],
     [content |-> "note", meta |-> <<>>]}

\* what collection.query returns: at most n distinct chunks, best match first
IndexResults(n) ==
    LET seqs == UNION {[1 .. m -> Chunks] : m \in 0 .. n}
        inj == {s \in seqs : \A i, j \in 1 .. Len(s) : i # j => s[i] # s[j]}
    IN  {[documents |-> [i \in 1 .. Len(s) |-> s[i].content],
          metadatas |-> [i \in 1 .. Len(s) |-> s[i].meta],
          distances |-> [i \in 1 .. Len(s) |-> i]] : s \in inj}

Queries == {"background?"}

\* HistoryMessage: role is any string, 'user' and 'twin' are what the frontend sends
Turns == [role : {"user", "twin", "visitor"}, content : {"hi"}]

Histories == UNION {[1 .. m -> Turns] : m \in 0 .. MaxHistory}

----------------------------------------------------------------------------
(* State machine *)

NoCalls == [index |-> 0, status |-> 0, fetch |-> 0, completion |-> 0, completed |-> 0]

NoResults == [documents |-> <<>>, metadatas |-> <<>>, distances |-> <<>>]

NoOutcome == [kind |-> "none"]

\* the collection after main(): the profile files, without a type
ProfileDocs ==
    {[id |-> [prefix |-> "doc", n |-> 0], document |-> [text |-> "resume"],
      metadata |-> [source |-> "resume.md"]],
     [id |-> [prefix |-> "doc", n |-> 1], document |-> [text |-> "bio"],
      metadata |-> [source |-> "bio.md"]]}

\* no run of ingest_slides yet
NoIngest == [state |-> "none", documents |-> <<>>, metadatas |-> <<>>, ids |-> <<>>]

----------------------------------------------------------------------------
(* scripts/ingest_data.py and integrations/google_slides.py.  A name is the *)
(* sequence of its characters.                                              *)

\* str.lower() on the characters of the names in use
Lower(c) ==
    CASE c = "Q" -> "q"
      [] c = "K" -> "k"
      [] c = "D" -> "d"
      [] c = "N" -> "n"
      [] OTHER -> c

\* source_name.lower().replace(" ", "-").replace("'", "")
SafeName(source_name) ==
    LET lowered == [i \in 1 .. Len(source_name) |-> Lower(source_name[i])]
        dashed == [i \in 1 .. Len(lowered) |-> IF lowered[i] = " " THEN "-" ELSE lowered[i]]
        IsNotQuote(c) == c # "'"
    IN  SelectSeq(dashed, IsNotQuote)

\* doc_id = f"slides_{safe_name}_slide_{slide_num}"
DocId(source_name, slide_num) ==
    [prefix |-> "slides", safe_name |-> SafeName(source_name), slide |-> slide_num]

\* the presentations a Drive folder can hold, by file name, title and the
\* title and body text of each slide: "Q4 K" with a titled and an empty slide,
\* "Q4 K" after an edit of its first slide, "q4-k" with a body-only slide,
\* "Dan's" with a full slide, "New" with an empty slide only
DeckPool ==
    {[name |-> <<"Q", "4", " ", "K">>, title |-> "KPIs",
      slides |-> <<[title |-> "Goals", body |-> ""], [title |-> "", body |-> ""]>>],
     [name |-> <<"Q", "4", " ", "K">>, title |-> "KPIs",
      slides |-> <<[title |-> "Goals", body |-> "Done"], [title |-> "", body |-> ""]>>],
     [name |-> <<"q", "4", "-", "k">>, title |-> "KPIs",
      slides |-> <<[title |-> "", body |-> "Numbers"]>>],
     [name |-> <<"D", "a", "n", "'", "s">>, title |-> "Intro",
      slides |-> <<[title |-> "Welcome", body |-> "Hello"]>>],
     [name |-> <<"N", "e", "w">>, title |-> "Untitled Presentation",
      slides |-> <<[title |-> "", body |-> ""]>>]}

\* list_presentations: the files of the folder, in the provider's order; two
\* files of a folder may carry the same name
Folders == UNION {[1 .. m -> DeckPool] : m \in 0 .. MaxDecks}

\* get_presentation_content: the slides numbered from 1
PresentationContent(deck) ==
    [title |-> deck.title,
     slides |-> [i \in 1 .. Len(deck.slides) |->
                   [slide_number |-> i, title |-> deck.slides[i].title,
                    body |-> deck.slides[i].body]]]

\* get_all_slides_content: the content of each file with its file name
GetAllSlidesContent(folder) ==
    [i \in 1 .. Len(folder) |->
       [title |-> PresentationContent(folder[i]).title,
        slides |-> PresentationContent(folder[i]).slides,
        source_name |-> folder[i].name]]

\* content_parts of a slide
ContentParts(slide) ==
    (IF slide.title # "" THEN <<[label |-> "Slide Title", text |-> slide.title]>> ELSE <<>>)
    \o (IF slide.body # "" THEN <<[label |-> "Content", text |-> slide.body]>> ELSE <<>>)

\* the document, metadata and id appended for a slide with content
SlideDoc(source_name, slide) ==
    [id |-> DocId(source_name, slide.slide_number),
     document |-> [source_name |-> source_name, slide_number |-> slide.slide_number,
                   parts |-> ContentParts(slide)],
     metadata |-> [source |-> [name |-> source_name, slide |-> slide.slide_number],
                   type |-> "slides",
                   presentation |-> source_name,
                   slide_number |-> slide.slide_number]]

RECURSIVE DeckDocs(_, _)
\* the inner loop: the slides of one presentation, empty slides skipped
DeckDocs(source_name, slides) ==
    IF slides = <<>> THEN <<>>
    ELSE (IF ContentParts(Head(slides)) = <<>>
          THEN <<>>
          ELSE <<SlideDoc(source_name, Head(slides))>>)
         \o DeckDocs(source_name, Tail(slides))

RECURSIVE BuildDocs(_)
\* the outer loop over all_presentations
BuildDocs(all_presentations) ==
    IF all_presentations = <<>> THEN <<>>
    ELSE DeckDocs(Head(all_presentations).source_name, Head(all_presentations).slides)
         \o BuildDocs(Tail(all_presentations))

\* collection.get(where={"type": "slides"})
IsSlides(doc) == "type" \in DOMAIN doc.metadata /\ doc.metadata.type = "slides"

\* collection.add validates its batch: an id given twice raises DuplicateIDError
HasDuplicateIds(ids) == \E i, j \in 1 .. Len(ids) : i # j /\ ids[i] = ids[j]

\* the locals of a run that ended in the given way
IngestLocals(state, docs) ==
    [state |-> state,
     documents |-> [i \in 1 .. Len(docs) |-> docs[i].document],
     metadatas |-> [i \in 1 .. Len(docs) |-> docs[i].metadata],
     ids |-> [i \in 1 .. Len(docs) |-> docs[i].id]]

\* the locals of a request before it runs
Fresh ==
    /\ query = ""
    /\ history = <<>>
    /\ results = NoResults
    /\ context_docs = <<>>
    /\ items = <<>>
    /\ events = <<>>
    /\ current_hour = 0
    /\ status = None
    /\ authed = FALSE
    /\ calls = NoCalls
    /\ messages = <<>>
    /\ outcome = NoOutcome
    /\ time_range = NoRange

\* the server runs in the user's timezone; token.json may be left from an earlier login
Init ==
    /\ clock \in Hours
    /\ tz = UserUtcOffset
    /\ zone = LosAngelesWinter
    /\ collection = ProfileDocs
    /\ ingest = NoIngest
    /\ token \in {"absent", "valid"}
    /\ cb = "idle"
    /\ req = "none"
    /\ pc = "idle"
    /\ Fresh

\* an exception leaves the handler: the framework answers with an error
Raise(cause) ==
    /\ outcome' = [kind |-> "error", cause |-> cause]
    /\ pc' = "done"

\* get_status returns st: to the /api/status caller, or into generate_response
Return(st) ==
    /\ status' = st
    /\ IF req = "status"
       THEN /\ outcome' = [kind |-> "status", body |-> st]
            /\ pc' = "done"
       ELSE /\ outcome' = outcome
            /\ pc' = "complete"

\* GET /api/status: mood_engine.get_status()
StatusStart ==
    /\ req = "none"
    /\ req' = "status"
    /\ pc' = "auth"
    /\ calls' = [calls EXCEPT !.status = 1]
    /\ UNCHANGED <<clock, tz, token, cb, query, history, results, context_docs, items,
                   events, current_hour, status, authed, messages, outcome>>
    /\ UNCHANGED <<zone, time_range, collection, ingest>>

\* POST /api/chat: engine.ask(req.query, history)
ChatStart ==
    /\ req = "none"
    /\ \E q \in Queries, h \in Histories :
          /\ query' = q
          /\ history' = h
    /\ req' = "chat"
    /\ pc' = "retrieve"
    /\ UNCHANGED <<clock, tz, token, cb, results, context_docs, items, events,
                   current_hour, status, authed, calls, messages, outcome>>
    /\ UNCHANGED <<zone, time_range, collection, ingest>>

\* ask: context_docs = self.retrieve(query, n_results=3); the query raises
\* when the index is unreachable
RetrieveDocs ==
    /\ pc = "retrieve"
    /\ \/ /\ Raise("index")
          /\ calls' = [calls EXCEPT !.index = @ + 1]
          /\ UNCHANGED <<results, context_docs>>
       \/ \E r \in IndexResults(NResults) :
            /\ results' = r
            /\ context_docs' = Retrieve(r)
            /\ pc' = "auth"
            /\ calls' = [calls EXCEPT !.index = @ + 1, !.status = @ + 1]
            /\ outcome' = outcome
    /\ UNCHANGED <<clock, tz, token, cb, req, query, history, items, events,
                   current_hour, status, authed, messages>>
    /\ UNCHANGED <<zone, time_range, collection, ingest>>

\* get_status: the auth check answering "authenticated" although no token is stored
IsAuthenticatedAlways ==
    /\ pc = "auth"
    /\ IF token = "partial"
       THEN /\ Raise("token")
            /\ UNCHANGED <<authed, status>>
       ELSE /\ authed' = (token = "valid")
            /\ pc' = "creds"
            /\ UNCHANGED <<status, outcome>>
    /\ UNCHANGED <<clock, tz, token, cb, req, query, history, results, context_docs,
                   items, events, current_hour, calls, messages>>
    /\ UNCHANGED <<zone, time_range, collection, ingest>>

\* get_status: an unreadable token.json skipped, the request going on to the
\* completion call without a status
IsAuthenticatedSkipUnreadable ==
    /\ pc = "auth"
    /\ IF token = "partial"
       THEN /\ pc' = "complete"
            /\ UNCHANGED <<authed, status, outcome>>
       ELSE IF token = "absent"
       THEN /\ authed' = FALSE
            /\ Return(SentinelStatus)
       ELSE /\ authed' = TRUE
            /\ pc' = "creds"
            /\ UNCHANGED <<status, outcome>>
    /\ UNCHANGED <<clock, tz, token, cb, req, query, history, results, context_docs,
                   items, events, current_hour, calls, messages>>
    /\ UNCHANGED <<zone, time_range, collection, ingest>>

\* get_status: "if not is_authenticated(): return {...}"; get_credentials
\* returns None without token.json and raises on a file json.load cannot read
IsAuthenticated ==
    /\ pc = "auth"
    /\ IF token = "partial"
       THEN /\ Raise("token")
            /\ UNCHANGED <<authed, status>>
       ELSE IF token = "absent"
       THEN /\ authed' = FALSE
            /\ Return(SentinelStatus)
       ELSE /\ authed' = TRUE
            /\ pc' = "creds"
            /\ UNCHANGED <<status, outcome>>
    /\ UNCHANGED <<clock, tz, token, cb, req, query, history, results, context_docs,
                   items, events, current_hour, calls, messages>>
    /\ UNCHANGED <<zone, time_range, collection, ingest>>

\* get_todays_events: credentials = get_credentials(); "return []" without them
GetCredentials ==
    /\ pc = "creds"
    /\ IF token = "partial"
       THEN /\ Raise("token")
            /\ UNCHANGED events
       ELSE IF token = "absent"
       THEN /\ events' = <<>>
            /\ pc' = "analyze"
            /\ outcome' = outcome
       ELSE /\ pc' = "fetch"
            /\ UNCHANGED <<events, outcome>>
    /\ UNCHANGED <<clock, tz, token, cb, req, query, history, results, context_docs,
                   items, current_hour, status, authed, calls, messages>>
    /\ UNCHANGED <<zone, time_range, collection, ingest>>

\* get_todays_events: the time range of today, service.events().list(...)
\* .execute(), then the loop that formats every record; the call raises when the
\* provider fails, and event["start"] or event["end"] raises KeyError on a
\* record without that key
FetchEventsFrom(calendars) ==
    /\ pc = "fetch"
    /\ calls' = [calls EXCEPT !.fetch = @ + 1]
    /\ time_range' = TimeRange(zone)
    /\ \/ /\ Raise("calendar")
          /\ UNCHANGED <<items, events>>
       \/ \E c \in calendars :
            /\ items' = c
            /\ IF \A i \in 1 .. Len(c) : HasStartEnd(c[i])
               THEN /\ events' = FormatEvents(c, clock, tz)
                    /\ pc' = "analyze"
                    /\ outcome' = outcome
               ELSE /\ Raise("record")
                    /\ events' = events
    /\ UNCHANGED <<clock, tz, token, cb, req, query, history, results, context_docs,
                   current_hour, status, authed, messages>>
    /\ UNCHANGED <<zone, collection, ingest>>

FetchEvents == FetchEventsFrom(StatusCalendars)

ChatFetchEvents == FetchEventsFrom(ChatCalendars)

NormFetchEvents == FetchEventsFrom(NormCalendars)

\* get_status: analysis = self._analyze_calendar(events); return analysis
Analyze ==
    /\ pc = "analyze"
    /\ current_hour' = UserHour(clock)
    /\ Return(AnalyzeCalendar(events, UserHour(clock)))
    /\ UNCHANGED <<clock, tz, token, cb, req, query, history, results, context_docs,
                   items, events, authed, calls, messages>>
    /\ UNCHANGED <<zone, time_range, collection, ingest>>

\* generate_response answering with an empty text when the completion call fails
CompleteSwallow ==
    /\ pc = "complete"
    /\ messages' = BuildMessages(query, context_docs, history, status)
    /\ \E ok \in BOOLEAN :
          /\ calls' = [calls EXCEPT !.completion = @ + 1,
                                    !.completed = IF ok THEN @ + 1 ELSE @]
          /\ outcome' = [kind |-> "answer",
                         response |-> IF ok THEN "completion text" ELSE "",
                         sources |-> Sources(context_docs)]
    /\ pc' = "done"
    /\ UNCHANGED <<clock, tz, token, cb, req, query, history, results, context_docs,
                   items, events, current_hour, status, authed>>
    /\ UNCHANGED <<zone, time_range, collection, ingest>>

\* generate_response: build the messages, call chat.completions.create, return
\* {"response", "sources"}; chat() wraps it in ChatResponse; the call raises
\* when the completion service fails
Complete ==
    /\ pc = "complete"
    /\ messages' = BuildMessages(query, context_docs, history, status)
    /\ \/ /\ Raise("completion")
          /\ calls' = [calls EXCEPT !.completion = @ + 1]
       \/ /\ outcome' = [kind |-> "answer",
                         response |-> "completion text",
                         sources |-> Sources(context_docs)]
          /\ pc' = "done"
          /\ calls' = [calls EXCEPT !.completion = @ + 1, !.completed = @ + 1]
    /\ UNCHANGED <<clock, tz, token, cb, req, query, history, results, context_docs,
                   items, events, current_hour, status, authed>>
    /\ UNCHANGED <<zone, time_range, collection, ingest>>

\* the response is sent; the next request starts from fresh locals
Finish ==
    /\ pc = "done"
    /\ req' = "none"
    /\ pc' = "idle"
    /\ query' = ""
    /\ history' = <<>>
    /\ results' = NoResults
    /\ context_docs' = <<>>
    /\ items' = <<>>
    /\ events' = <<>>
    /\ current_hour' = 0
    /\ status' = None
    /\ authed' = FALSE
    /\ calls' = NoCalls
    /\ messages' = <<>>
    /\ outcome' = NoOutcome
    /\ time_range' = NoRange
    /\ UNCHANGED <<clock, tz, token, cb>>
    /\ UNCHANGED <<zone, collection, ingest>>

\* exchange_code_for_tokens: open(TOKEN_PATH, "w") creates or truncates the file
CallbackOpen ==
    /\ cb = "idle"
    /\ cb' = "open"
    /\ token' = "partial"
    /\ UNCHANGED <<clock, tz, req, pc, query, history, results, context_docs, items,
                   events, current_hour, status, authed, calls, messages, outcome>>
    /\ UNCHANGED <<zone, time_range, collection, ingest>>

\* exchange_code_for_tokens: json.dump(token_data, f) and the file is closed
CallbackDump ==
    /\ cb = "open"
    /\ cb' = "idle"
    /\ token' = "valid"
    /\ UNCHANGED <<clock, tz, req, pc, query, history, results, context_docs, items,
                   events, current_hour, status, authed, calls, messages, outcome>>
    /\ UNCHANGED <<zone, time_range, collection, ingest>>

\* one run of ingest_slides(collection) over the folder as it is now
IngestSlides ==
    /\ \E folder \in Folders :
          LET all_presentations == GetAllSlidesContent(folder)
              docs == BuildDocs(all_presentations)
              kept == {d \in collection : ~IsSlides(d)}
          IN  IF token = "absent"
              THEN /\ ingest' = IngestLocals("unauthenticated", <<>>)
                   /\ collection' = collection
              ELSE IF token = "partial"
              THEN /\ ingest' = IngestLocals("raised", <<>>)
                   /\ collection' = collection
              ELSE IF all_presentations = <<>>
              THEN /\ ingest' = IngestLocals("no_presentations", <<>>)
                   /\ collection' = collection
              ELSE IF docs = <<>>
              THEN /\ ingest' = IngestLocals("no_content", <<>>)
                   /\ collection' = collection
              ELSE IF HasDuplicateIds(IngestLocals("", docs).ids)
              THEN /\ ingest' = IngestLocals("add_raised", docs)
                   /\ collection' = kept
              ELSE /\ ingest' = IngestLocals("added", docs)
                   /\ collection' = kept \cup {docs[i] : i \in 1 .. Len(docs)}
    /\ UNCHANGED <<clock, tz, token, cb, req, pc, query, history, results, context_docs,
                   items, events, current_hour, status, authed, calls, messages, outcome,
                   zone, time_range>>

\* an hour passes
Tick ==
    /\ clock < 23
    /\ clock' = clock + 1
    /\ UNCHANGED <<tz, token, cb, req, pc, query, history, results, context_docs, items,
                   events, current_hour, status, authed, calls, messages, outcome>>
    /\ UNCHANGED <<zone, time_range, collection, ingest>>

\* the /api/status service with the OAuth callback beside it
Next ==
    \/ StatusStart
    \/ IsAuthenticated
    \/ GetCredentials
    \/ FetchEvents
    \/ Analyze
    \/ Finish
    \/ CallbackOpen
    \/ CallbackDump
    \/ Tick

Spec == Init /\ [][Next]_vars

\* the /api/chat service with the OAuth callback beside it
InitChat ==
    /\ clock \in ChatClocks
    /\ tz = UserUtcOffset
    /\ zone = LosAngelesWinter
    /\ collection = ProfileDocs
    /\ ingest = NoIngest
    /\ token \in {"absent", "valid"}
    /\ cb = "idle"
    /\ req = "none"
    /\ pc = "idle"
    /\ Fresh

NextChat ==
    \/ ChatStart
    \/ RetrieveDocs
    \/ IsAuthenticated
    \/ GetCredentials
    \/ ChatFetchEvents
    \/ Analyze
    \/ Complete
    \/ Finish
    \/ CallbackOpen
    \/ CallbackDump

SpecChat == InitChat /\ [][NextChat]_vars

\* get_todays_events over single records of every shape, under each server timezone
InitNorm ==
    /\ clock \in 0 .. MaxNormTime
    /\ tz \in NormOffsets
    /\ zone = FixedZone(tz)
    /\ collection = ProfileDocs
    /\ ingest = NoIngest
    /\ token = "valid"
    /\ cb = "idle"
    /\ req = "none"
    /\ pc = "idle"
    /\ Fresh

NextNorm ==
    \/ StatusStart
    \/ IsAuthenticated
    \/ GetCredentials
    \/ NormFetchEvents
    \/ Analyze
    \/ Finish

SpecNorm == InitNorm /\ [][NextNorm]_vars

\* runs of ingest_slides on one collection, with the OAuth callback beside them
InitIngest ==
    /\ clock = 18
    /\ tz = UserUtcOffset
    /\ zone = LosAngelesWinter
    /\ collection = ProfileDocs
    /\ ingest = NoIngest
    /\ token \in {"absent", "valid"}
    /\ cb = "idle"
    /\ req = "none"
    /\ pc = "idle"
    /\ Fresh

NextIngest ==
    \/ IngestSlides
    \/ CallbackOpen
    \/ CallbackDump

SpecIngest == InitIngest /\ [][NextIngest]_vars

\* get_todays_events under the timezones a server can run in; the whole hours
\* of the local offset stand for it where naive datetimes are compared
InitRange ==
    /\ clock \in ChatClocks
    /\ zone \in ServerZones
    /\ tz = LocalOffsetMinutes(zone) \div 60
    /\ collection = ProfileDocs
    /\ ingest = NoIngest
    /\ token = "valid"
    /\ cb = "idle"
    /\ req = "none"
    /\ pc = "idle"
    /\ Fresh

NextRange ==
    \/ StatusStart
    \/ IsAuthenticated
    \/ GetCredentials
    \/ ChatFetchEvents
    \/ Analyze
    \/ Finish

SpecRange == InitRange /\ [][NextRange]_vars

----------------------------------------------------------------------------
(* Properties *)

\* get_status has returned the analysis of the provider's events
Analyzed == status # None /\ authed

\* C1 as stated: with the calendar authenticated, an event list holding an
\* active event yields availability=busy, best_contact_method=async and
\* suggested_wait_time=30min at any current hour, whatever the number of events.
C1_AnyHour ==
    (Analyzed /\ \E i \in 1 .. Len(events) : events[i].is_now)
    => /\ status.availability = "busy"
       /\ status.best_contact_method = "async"
       /\ status.suggested_wait_time = "30min"

\* C1 amended: with the calendar authenticated, an event list holding an
\* active event yields best_contact_method=async and suggested_wait_time=30min
\* at any current hour, and availability=busy at any current hour below 16,
\* whatever the number of events.
C1_InMeeting ==
    (Analyzed /\ \E i \in 1 .. Len(events) : events[i].is_now)
    => /\ status.best_contact_method = "async"
       /\ status.suggested_wait_time = "30min"
       /\ current_hour < 16 => status.availability = "busy"

C1_Witness ==
    /\ Analyzed
    /\ Len(events) = 5
    /\ \E i \in 1 .. Len(events) : events[i].is_now
    /\ current_hour < 16
    /\ status.availability = "busy"

\* C2 as stated: with the calendar authenticated, an event list of 0, 1 or 2
\* events with no active event yields availability=open at any current hour.
C2_AnyHour ==
    (Analyzed /\ Len(events) <= 2 /\ \A i \in 1 .. Len(events) : ~events[i].is_now)
    => status.availability = "open"

\* C2 amended: with the calendar authenticated, an event list of 0, 1 or 2
\* events with no active event yields availability=open at any current hour
\* below 16.
C2_LightDay ==
    (Analyzed /\ Len(events) <= 2 /\ current_hour < 16
       /\ \A i \in 1 .. Len(events) : ~events[i].is_now)
    => status.availability = "open"

C2_Witness ==
    /\ Analyzed
    /\ Len(events) = 2
    /\ \A i \in 1 .. Len(events) : ~events[i].is_now
    /\ current_hour < 16
    /\ status.availability = "open"

\* C3: with the calendar authenticated, at a current hour of 16 or later the
\* status has availability=winding_down and energy_estimate=low for every
\* event list, with or without an active event and of any size.
C3_WindingDown ==
    (Analyzed /\ current_hour >= 16)
    => /\ status.availability = "winding_down"
       /\ status.energy_estimate = "low"

C3_Witness ==
    /\ Analyzed
    /\ current_hour = 16
    /\ Len(events) = 3
    /\ \E i \in 1 .. Len(events) : events[i].is_now
    /\ status.availability = "winding_down"

\* C4: when is_authenticated() is false, get_status returns the fixed
\* sentinel (availability, energy_estimate and suggested_wait_time unknown,
\* meeting_count 0, in_meeting false, the fixed summary) and no events are
\* fetched from the calendar provider.
C4_Sentinel ==
    (status # None /\ ~authed)
    => /\ status.availability = "unknown"
       /\ status.energy_estimate = "unknown"
       /\ status.suggested_wait_time = "unknown"
       /\ status.meeting_count = 0
       /\ status.in_meeting = FALSE
       /\ status.context_summary = Summary("Calendar not connected", 0, "none")
       /\ calls.fetch = 0
       /\ items = <<>>
       /\ req = "status" => outcome = [kind |-> "status", body |-> status]

C4_Witness ==
    /\ req = "status"
    /\ pc = "done"
    /\ ~authed
    /\ outcome.kind = "status"
    /\ outcome.body.availability = "unknown"

\* C5: every status get_status produces has meetings_remaining and
\* meeting_count, both non-negative integers with meetings_remaining <=
\* meeting_count; meeting_count is the number of normalized events and
\* meetings_remaining the number of those whose is_past is false.
C5_Remaining ==
    status # None
    => /\ "meeting_count" \in DOMAIN status
       /\ "meetings_remaining" \in DOMAIN status
       /\ status.meeting_count \in Nat
       /\ status.meetings_remaining \in Nat
       /\ status.meetings_remaining <= status.meeting_count
       /\ status.meeting_count = Len(events)
       /\ status.meetings_remaining = Cardinality({i \in 1 .. Len(events) : ~events[i].is_past})

\* C6: the sources ask returns are the source values of the documents the
\* index returned, one per document, in the index's order, at most 3, with
\* duplicates kept (a document stored without a source is listed as "unknown").
C6_Sources ==
    outcome.kind = "answer"
    => /\ Len(outcome.sources) = Len(results.documents)
       /\ Len(outcome.sources) <= 3
       /\ \A i \in 1 .. Len(results.metadatas) :
             outcome.sources[i] = IF "source" \in DOMAIN results.metadatas[i]
                                  THEN results.metadatas[i].source
                                  ELSE "unknown"

C6_Witness ==
    /\ outcome.kind = "answer"
    /\ outcome.sources = <<"resume.md", "bio.md", "resume.md">>

\* C7: when the index is unreachable or returns no document, ask does not
\* fail the request: the status lookup and the completion call still run, and
\* unless the calendar or the completion fails ask returns the completion
\* text with an empty sources list.
C7_EmptyContext ==
    (req = "chat" /\ pc = "done" /\ context_docs = <<>>
       /\ ~(outcome.kind = "error" /\ outcome.cause \in {"token", "calendar", "completion"}))
    => /\ calls.status = 1
       /\ calls.completion = 1
       /\ outcome.kind = "answer"
       /\ outcome.sources = <<>>

\* C8: a failure of the calendar provider (the events fetch fails, or the
\* stored credential cannot be read) never leaves get_status or ask as an error.
C8_CalendarFailure ==
    pc = "done" => ~(outcome.kind = "error" /\ outcome.cause \in {"token", "calendar"})

\* C9: when the completion call fails, ask ends in an error its caller sees;
\* an answer is returned only for a request whose completion call succeeded.
C9_CompletionFailure ==
    /\ (req = "chat" /\ pc = "done" /\ calls.completion > calls.completed)
         => outcome.kind = "error"
    /\ outcome.kind = "answer" => (calls.completion = 1 /\ calls.completed = 1)

C9_Witness ==
    /\ req = "chat"
    /\ pc = "done"
    /\ calls.completion = 1
    /\ calls.completed = 0
    /\ outcome = [kind |-> "error", cause |-> "completion"]

\* C10: no normalized event has is_now and is_past both true, whatever its
\* start, end and the current instant, all-day and unparseable events included.
C10_Exclusive ==
    \A i \in 1 .. Len(events) : ~(events[i].is_now /\ events[i].is_past)

C10_Witness ==
    /\ Len(events) = 1
    /\ items[1].start.k = "dt"
    /\ items[1].end.k = "dt"
    /\ clock = Instant(FromIso(items[1].end))
    /\ events[1].is_now

\* C11: get_todays_events never raises because of a malformed record: a
\* record whose start or end is missing or unparseable is emitted with its raw
\* start and end values, is_now=false and is_past=false, and the output has one
\* event per raw record, in provider order.
C11_FailSoft ==
    /\ ~(outcome.kind = "error" /\ outcome.cause = "record")
    /\ items # <<>>
       => /\ Len(events) = Len(items)
          /\ \A i \in 1 .. Len(items) :
                /\ events[i].summary = items[i].summary
                /\ (items[i].start.k \in {"badT", "bad", "none"}
                      \/ items[i].end.k \in {"badT", "bad", "none"})
                   => /\ events[i].start = [fmt |-> "raw", hh |-> 0, raw |-> items[i].start]
                      /\ events[i].end = [fmt |-> "raw", hh |-> 0, raw |-> items[i].end]
                      /\ ~events[i].is_now
                      /\ ~events[i].is_past

\* C12: every record get_status returns, the unauthenticated one included,
\* carries all the fields of AvailabilityStatus.
C12_AllFields ==
    status # None
    => {"availability", "energy_estimate", "best_contact_method", "suggested_wait_time",
        "context_summary", "meeting_count", "meetings_remaining", "in_meeting", "events"}
       \subseteq DOMAIN status

\* C13: in every ask request at most one completion call is issued, and only
\* after the document retrieval and the availability lookup of the request
\* have completed; when one of them fails no completion call is made.
C13_CompletionLast ==
    /\ calls.completion <= 1
    /\ calls.completion >= 1
       => /\ calls.index = 1
          /\ calls.status = 1
          /\ status # None
          /\ Len(context_docs) = Len(results.documents)
    /\ (outcome.kind = "error" /\ outcome.cause \in {"index", "token", "calendar", "record"})
       => calls.completion = 0

C13_Witness ==
    /\ req = "chat"
    /\ pc = "done"
    /\ calls.index = 1
    /\ calls.status = 1
    /\ calls.fetch = 1
    /\ calls.completion = 1
    /\ outcome.kind = "answer"

\* C14: the messages sent to the completion call are one system message, then
\* one message per history turn in the same order, assistant for a 'twin' turn
\* and user for any other, then one user message holding the context block and
\* the query: len(history) + 2 messages.
C14_Messages ==
    messages # <<>>
    => /\ Len(messages) = Len(history) + 2
       /\ messages[1].role = "system"
       /\ \A i \in 1 .. Len(history) :
             /\ history[i].role = "twin" => messages[i + 1].role = "assistant"
             /\ history[i].role # "twin" => messages[i + 1].role = "user"
             /\ messages[i + 1].content.text = history[i].content
       /\ messages[Len(messages)].role = "user"
       /\ messages[Len(messages)].content.kind = "user_prompt"
       /\ messages[Len(messages)].content.query = query
       /\ Len(messages[Len(messages)].content.parts) = Len(context_docs)
       /\ \A j \in 1 .. Len(messages) : messages[j].role \in {"system", "assistant", "user"}

C14_Witness ==
    /\ Len(messages) = 4
    /\ history[1].role = "twin"
    /\ history[2].role = "visitor"
    /\ messages[2].role = "assistant"
    /\ messages[3].role = "user"

\* C15: at a current hour of 16 or later the overlay changes only
\* availability, energy_estimate and context_summary: best_contact_method,
\* suggested_wait_time, meeting_count, meetings_remaining, in_meeting and
\* events keep the values of the in-meeting / meeting-count branch.
C15_OverlayFrame ==
    (Analyzed /\ current_hour >= 16)
    => LET n == Len(events)
           active == \E i \in 1 .. n : events[i].is_now
       IN  /\ status.best_contact_method =
                 (IF active THEN "async"
                  ELSE IF n = 0 THEN "deep_discussion"
                  ELSE IF n <= 4 THEN "quick_sync"
                  ELSE "async")
           /\ status.suggested_wait_time =
                 (IF active THEN "30min"
                  ELSE IF n <= 2 THEN "now"
                  ELSE IF n <= 4 THEN "30min"
                  ELSE "end_of_day")
           /\ status.meeting_count = n
           /\ status.meetings_remaining = Cardinality({i \in 1 .. n : ~events[i].is_past})
           /\ status.in_meeting = active
           /\ status.events = events

C15_Witness ==
    /\ Analyzed
    /\ current_hour = 17
    /\ events = <<>>
    /\ status.availability = "winding_down"
    /\ status.best_contact_method = "deep_discussion"
    /\ status.suggested_wait_time = "now"

\* C16: with the calendar authenticated, no active event and a current hour
\* below 16, (availability, best_contact_method, suggested_wait_time) is a
\* function of meeting_count alone: 0 gives (open, deep_discussion, now), 1-2
\* (open, quick_sync, now), 3-4 (focused, quick_sync, 30min), 5 or more
\* (busy, async, end_of_day).
C16_Tiers ==
    (Analyzed /\ current_hour < 16 /\ \A i \in 1 .. Len(events) : ~events[i].is_now)
    => LET n == status.meeting_count
           triple == <<status.availability, status.best_contact_method,
                       status.suggested_wait_time>>
       IN  /\ n = Len(events)
           /\ n = 0 => triple = <<"open", "deep_discussion", "now">>
           /\ n \in 1 .. 2 => triple = <<"open", "quick_sync", "now">>
           /\ n \in 3 .. 4 => triple = <<"focused", "quick_sync", "30min">>
           /\ n >= 5 => triple = <<"busy", "async", "end_of_day">>

C16_Witness ==
    /\ Analyzed
    /\ current_hour < 16
    /\ Len(events) = 4
    /\ \A i \in 1 .. Len(events) : ~events[i].is_now
    /\ status.availability = "focused"
    /\ status.suggested_wait_time = "30min"

\* C17: in every authenticated status energy_estimate depends on the current
\* hour alone: high for hours 9-11, medium for hours 12-15 and 0-8, low for
\* hours 16-23; for hours below 16 availability and the summary are the ones
\* of the in-meeting / meeting-count branch, the summary with a clause
\* appended for hours 9-15 and unchanged for hours 0-8.
C17_Energy ==
    Analyzed
    => LET n == Len(events)
           active == \E i \in 1 .. n : events[i].is_now
           h == current_hour
       IN  /\ h \in 9 .. 11 => status.energy_estimate = "high"
           /\ h \in 12 .. 15 => status.energy_estimate = "medium"
           /\ h \in 0 .. 8 => status.energy_estimate = "medium"
           /\ h \in 16 .. 23 => status.energy_estimate = "low"
           /\ h < 16
              => /\ status.availability =
                       (IF active THEN "busy"
                        ELSE IF n <= 2 THEN "open"
                        ELSE IF n <= 4 THEN "focused"
                        ELSE "busy")
                 /\ status.context_summary.text =
                       (IF active THEN "Currently in a meeting"
                        ELSE IF n = 0 THEN "Calendar is clear today"
                        ELSE IF n <= 2 THEN "Light day"
                        ELSE IF n <= 4 THEN "Moderate day"
                        ELSE "Heavy day")
                 /\ status.context_summary.count = (IF active \/ n = 0 THEN 0 ELSE n)
                 /\ h \in 9 .. 11
                    => status.context_summary.clause = "Morning energy is typically high"
                 /\ h \in 12 .. 13 => status.context_summary.clause = "Post-lunch energy dip"
                 /\ h \in 14 .. 15 => status.context_summary.clause = "Afternoon work mode"
                 /\ h \in 0 .. 8 => status.context_summary.clause = "none"

C17_Witness ==
    /\ Analyzed
    /\ current_hour \in 0 .. 8
    /\ Len(events) = 3
    /\ status.energy_estimate = "medium"
    /\ status.context_summary = [text |-> "Moderate day", count |-> 3, clause |-> "none"]

\* C18: for a timed event whose start and end carry a UTC offset, is_now
\* holds exactly when start instant <= current instant <= end instant and
\* is_past exactly when current instant > end instant, whatever the timezone
\* of the server process and the offsets the event is expressed in.
C18_Instants ==
    Len(events) = Len(items)
    => \A i \in 1 .. Len(items) :
          (/\ HasStartEnd(items[i])
           /\ items[i].start.k \in {"dt", "z"}
           /\ items[i].end.k \in {"dt", "z"})
          => LET s == items[i].start
                 e == items[i].end
                 start_instant == s.wall - (IF s.k = "dt" THEN s.off ELSE 0)
                 end_instant == e.wall - (IF e.k = "dt" THEN e.off ELSE 0)
             IN  /\ events[i].is_now = (start_instant <= clock /\ clock <= end_instant)
                 /\ events[i].is_past = (clock > end_instant)

C18_Witness ==
    /\ Len(events) = 1
    /\ Len(items) = 1
    /\ tz = -1
    /\ items[1].start = RawValue("dt", 2, 1)
    /\ items[1].end = RawValue("dt", 1, -1)
    /\ clock = 2
    /\ events[1].is_now
    /\ ~events[1].is_past

\* C19: the time range asked of the provider is the server's local day, from
\* local midnight to the next local midnight: the UTC offset attached to both
\* bounds is the local offset in effect, for every local timezone, with or
\* without daylight saving time in effect and with offsets that are not whole
\* hours.
C19_LocalDay ==
    time_range # NoRange
    => /\ time_range.time_min.day = 0
       /\ time_range.time_min.hh = 0
       /\ time_range.time_max.day = 1
       /\ time_range.time_max.hh = 0
       /\ time_range.time_min.off = LocalOffsetMinutes(zone)
       /\ time_range.time_max.off = LocalOffsetMinutes(zone)

\* C20: after any sequence of ingest_slides runs on the same collection, the
\* documents of type 'slides' in the collection are exactly the slide
\* documents built by the most recent run: none of an earlier run remains and
\* none appears twice, also when the most recent run finds no presentation or
\* only empty slides, and the ids built in one run are pairwise distinct.
C20_LatestRun ==
    ingest.state \in {"no_presentations", "no_content", "add_raised", "added"}
    => /\ {d \in collection : IsSlides(d)}
            = {[id |-> ingest.ids[i], document |-> ingest.documents[i],
                metadata |-> ingest.metadatas[i]] : i \in 1 .. Len(ingest.ids)}
       /\ \A d, e \in collection : d.id = e.id => d = e
       /\ \A i, j \in 1 .. Len(ingest.ids) : i # j => ingest.ids[i] # ingest.ids[j]

\* C21: a get_status request running beside an OAuth callback that stores the
\* token never fails on the token and never sees it half-written: it returns
\* the unknown sentinel or a status classified from the provider's events, and
\* a status other than the sentinel only if credentials were present at both
\* reads of the token (is_authenticated, then get_todays_events).
C21_TokenRace ==
    req = "status"
    => /\ ~(outcome.kind = "error" /\ outcome.cause = "token")
       /\ pc = "done" /\ outcome.kind = "status"
          => /\ outcome.body = status
             /\ \/ status = SentinelStatus /\ ~authed
                \/ status = AnalyzeCalendar(events, current_hour) /\ authed
       /\ (status # None /\ status # SentinelStatus) => (authed /\ calls.fetch = 1)

====
